---------------------------- MODULE Spec2Model ----------------------------
(***************************************************************************)
(* A model of the embedded RAM log (src/src/log.c, src/include/log.h):     *)
(* one struct log_ctx, the five functions that act on it, and the          *)
(* controllable tick source of the test harness (fake_timestamp).          *)
(***************************************************************************)
EXTENDS Integers, Sequences, FiniteSets, TLC

(***************************************************************************)
(* Sizes.  log.h sets LOG_ENTRIES to 50; the model keeps every formula in  *)
(* terms of LOG_ENTRIES and checks them with a small ring, so that several *)
(* full wraps fit in the explored runs.                                    *)
(***************************************************************************)
LOG_ENTRIES == 3
LOG_MSG_LEN == 48

\* Successful appends explored since the last log_init.
MaxAppends == 8
\* Largest value the tick source reaches.
MaxTime == 2
\* Appends explored on a context that was never passed to log_init.
MaxRawAppends == 2
\* When message lengths are explored: the appends made, and how far the
\* longest rendered text exceeds the message field.
MaxMsgAppends == 2
MaxTextOver == 2
\* Plain log_event calls explored beside the LOG_ONCE call sites.
MaxOnceAppends == 1

\* 2^16: uint16_t values are 0 .. UINT16 - 1.
UINT16 == 65536

Min(a, b) == IF a < b THEN a ELSE b

\* enum log_level
INFO == 0
WARN == 1
FAULT == 2
LogLevels == {INFO, WARN, FAULT}

\* Pointers are sequences of length at most one: NULL is the empty one, and
\* <<x>> points to x.  CTX is the address of the one context, fake_timestamp
\* the harness's tick function, WILD a function pointer that is neither NULL
\* nor a function (an indeterminate value).
NULL == << >>
CTX == <<"ctx">>
fake_timestamp == <<"fake_timestamp">>
WILD == <<"wild">>
CtxPtrs == {NULL, CTX}

\* Rendered message texts, as sequences of characters.
Chars(n, c) == [i \in 1..n |-> c]
MsgBoot == <<"B", "o", "o", "t">>
MsgRetry == <<"R", "e", "t", "r", "y">>
MsgLong == Chars(LOG_MSG_LEN + 2, "x")
\* The (level, fmt) arguments of the explored log_event calls; fmt is NULL
\* or a pointer to a text.
Calls == {<<INFO, <<MsgBoot>>>>, <<FAULT, <<MsgLong>>>>, <<WARN, <<MsgRetry>>>>,
          <<INFO, NULL>>}

VARIABLES
    buffer,         \* ctx.buffer : slot -> struct log_entry
    head,           \* ctx.head
    count,          \* ctx.count
    timestamp_fn,   \* ctx.timestamp_fn
    fake_time,      \* the harness's tick value
    fault,          \* the run has executed undefined behaviour
    inited,         \* log_init(&ctx, ..) has been called
    nappends,       \* successful appends since the last log_init
    fifo,           \* the last LOG_ENTRIES entries appended since then
    queried,        \* the last step called the time source
    last,           \* the last step: what was called, and the count on entry
    written,        \* the slots log_event has written since the last log_init
    _logged,        \* the static flag of each LOG_ONCE call site
    fired,          \* the log_event calls each LOG_ONCE call site has made
    other           \* a second struct log_ctx, for LOG_ONCE on another log

vars == <<buffer, head, count, timestamp_fn, fake_time, fault, inited,
          nappends, fifo, queried, last, written, _logged, fired, other>>

\* The state of the LOG_ONCE call sites and of the second context.
oncevars == <<_logged, fired, other>>

\* The LOG_ONCE call sites of the explored program.
Sites == {"site_a", "site_b"}

Slots == 0 .. (LOG_ENTRIES - 1)

\* struct log_entry
Entry(ts, lvl, m) == [timestamp |-> ts, level |-> lvl, msg |-> m]
ZeroEntry == Entry(0, 0, << >>)

\* Mutant of vsnprintf: no room is kept for the terminator.
vsnprintf_NoTerminatorRoom(text, size) ==
    SubSeq(text, 1, Min(Len(text), size))

\* vsnprintf(dst, size, ...): at most size-1 characters of the rendered
\* text are stored, followed by the terminator.
vsnprintf(text, size) == SubSeq(text, 1, Min(Len(text), size - 1))

\* What an append was called with: the tick value the time source returned,
\* the level and the rendered text.
Appended(ts, lvl, text) == [ts |-> ts, level |-> lvl, text |-> text]

\* The record of a step in last.
Called(name) == [op |-> name, had |-> count]

\* The last n elements of a sequence (all of it when it has fewer).
LastN(q, n) == IF Len(q) <= n THEN q ELSE SubSeq(q, Len(q) - n + 1, Len(q))

\* Values an object of automatic storage may hold before log_init.
Garbage16 == {0, 1, LOG_ENTRIES, UINT16 - 1}
GarbageEntry == Entry(UINT16 - 1, UINT16 - 1, <<"?">>)

ZeroBuffer == [p \in Slots |-> ZeroEntry]

\* A context in zero-initialized (static) storage, never passed to log_init.
Init ==
    /\ buffer = ZeroBuffer
    /\ head = 0
    /\ count = 0
    /\ timestamp_fn = NULL
    /\ fake_time = 0
    /\ fault = FALSE
    /\ inited = FALSE
    /\ nappends = 0
    /\ fifo = << >>
    /\ queried = FALSE
    /\ last = [op |-> "none", had |-> 0]
    /\ written = {}
    /\ _logged = [s \in Sites |-> 0]
    /\ fired = [s \in Sites |-> << >>]
    /\ other = [buffer |-> ZeroBuffer, head |-> 0, count |-> 0,
                timestamp_fn |-> NULL]

\* A context never passed to log_init, in static storage (as Init) or in
\* automatic storage, where every field holds an indeterminate value.
InitAuto ==
    /\ \/ /\ buffer = ZeroBuffer
          /\ head = 0
          /\ count = 0
          /\ timestamp_fn = NULL
       \/ /\ buffer = [p \in Slots |-> GarbageEntry]
          /\ head \in Garbage16
          /\ count \in Garbage16
          /\ timestamp_fn \in {NULL, fake_timestamp, WILD}
    /\ fake_time = 0
    /\ fault = FALSE
    /\ inited = FALSE
    /\ nappends = 0
    /\ fifo = << >>
    /\ queried = FALSE
    /\ last = [op |-> "none", had |-> 0]
    /\ written = {}
    /\ _logged = [s \in Sites |-> 0]
    /\ fired = [s \in Sites |-> << >>]
    /\ other = [buffer |-> ZeroBuffer, head |-> 0, count |-> 0,
                timestamp_fn |-> NULL]

\* Mutant of log_init: the count is not reset.
log_init_KeepCount(ctx, fn) ==
    /\ ~fault
    /\ IF ctx = NULL
         THEN UNCHANGED <<buffer, head, count, timestamp_fn, inited,
                          nappends, fifo, written>>
         ELSE /\ head' = 0
              /\ UNCHANGED count
              /\ timestamp_fn' = fn
              /\ buffer' = ZeroBuffer
              /\ inited' = TRUE
              /\ nappends' = 0
              /\ fifo' = << >>
              /\ written' = {}
    /\ queried' = FALSE
    /\ last' = Called("log_init")
    /\ UNCHANGED <<fake_time, fault>>

\* Mutant of log_init: the buffer is not cleared.
log_init_NoMemset(ctx, fn) ==
    /\ ~fault
    /\ IF ctx = NULL
         THEN UNCHANGED <<buffer, head, count, timestamp_fn, inited,
                          nappends, fifo, written>>
         ELSE /\ head' = 0
              /\ count' = 0
              /\ timestamp_fn' = fn
              /\ UNCHANGED buffer
              /\ inited' = TRUE
              /\ nappends' = 0
              /\ fifo' = << >>
              /\ written' = {}
    /\ queried' = FALSE
    /\ last' = Called("log_init")
    /\ UNCHANGED <<fake_time, fault>>

\* Mutant of log_init: the write cursor is not reset.
log_init_KeepHead(ctx, fn) ==
    /\ ~fault
    /\ IF ctx = NULL
         THEN UNCHANGED <<buffer, head, count, timestamp_fn, inited,
                          nappends, fifo, written>>
         ELSE /\ UNCHANGED head
              /\ count' = 0
              /\ timestamp_fn' = fn
              /\ buffer' = ZeroBuffer
              /\ inited' = TRUE
              /\ nappends' = 0
              /\ fifo' = << >>
              /\ written' = {}
    /\ queried' = FALSE
    /\ last' = Called("log_init")
    /\ UNCHANGED <<fake_time, fault>>

\* log_init(ctx, timestamp_fn)
log_init(ctx, fn) ==
    /\ ~fault
    /\ IF ctx = NULL
         THEN UNCHANGED <<buffer, head, count, timestamp_fn, inited,
                          nappends, fifo, written>>
         ELSE /\ head' = 0
              /\ count' = 0
              /\ timestamp_fn' = fn
              /\ buffer' = ZeroBuffer
              /\ inited' = TRUE
              /\ nappends' = 0
              /\ fifo' = << >>
              /\ written' = {}
    /\ queried' = FALSE
    /\ last' = Called("log_init")
    /\ UNCHANGED <<fake_time, fault>>

\* Mutants of AdvanceHead: the cursor wraps one slot early; never wraps.
AdvanceHead_WrapEarly(h) ==
    LET h1 == (h + 1) % UINT16
    IN  IF h1 >= LOG_ENTRIES - 1 THEN 0 ELSE h1
AdvanceHead_NoWrap(h) == (h + 1) % UINT16

\* ctx->head++; if (ctx->head >= LOG_ENTRIES) ctx->head = 0u;
AdvanceHead(h) ==
    LET h1 == (h + 1) % UINT16
    IN  IF h1 >= LOG_ENTRIES THEN 0 ELSE h1

\* Mutants of AdvanceCount: no saturation; back to zero when full.
AdvanceCount_Unbounded(c) == (c + 1) % UINT16
AdvanceCount_Wrap(c) == IF c < LOG_ENTRIES THEN c + 1 ELSE 0

\* if (ctx->count < LOG_ENTRIES) ctx->count++;
AdvanceCount(c) == IF c < LOG_ENTRIES THEN c + 1 ELSE c

\* Mutant of NewEntry: the level is not stored.
NewEntry_NoLevel(ts, level, text) ==
    Entry(ts, 0, vsnprintf(text, LOG_MSG_LEN))

\* The entry log_event writes: the tick value, the level, the rendered text
\* cut to the message field.
NewEntry(ts, level, text) ==
    Entry(ts, level % UINT16, vsnprintf(text, LOG_MSG_LEN))

\* Mutants of EventRejected: one of the three checks is missing.
EventRejected_NoFmtCheck(ctx, fmt) == (ctx = NULL) \/ (timestamp_fn = NULL)
EventRejected_NoFnCheck(ctx, fmt) == (ctx = NULL) \/ (fmt = NULL)

\* The early return of log_event.
EventRejected(ctx, fmt) ==
    (ctx = NULL) \/ (timestamp_fn = NULL) \/ (fmt = NULL)

\* log_event(ctx, level, fmt, ...)
log_event(ctx, level, fmt) ==
    /\ ~fault
    /\ IF EventRejected(ctx, fmt)
         THEN /\ UNCHANGED <<buffer, head, count, nappends, fifo, fault,
                             written>>
              /\ queried' = FALSE
         ELSE IF \/ head \notin Slots
                 \/ timestamp_fn # fake_timestamp
                 \/ fmt = NULL
         THEN \* a write outside ctx->buffer, a call through a pointer that
              \* is no function, or vsnprintf with a null format: undefined
              \* behaviour
              /\ fault' = TRUE
              /\ head' \in Garbage16
              /\ count' \in Garbage16
              /\ queried' \in BOOLEAN
              /\ UNCHANGED <<buffer, nappends, fifo, written>>
         ELSE /\ nappends < (IF inited THEN MaxAppends ELSE MaxRawAppends)
              /\ buffer' = [buffer EXCEPT
                               ![head] = NewEntry(fake_time, level, fmt[1])]
              /\ head' = AdvanceHead(head)
              /\ count' = AdvanceCount(count)
              /\ nappends' = nappends + 1
              /\ fifo' = LastN(Append(fifo, Appended(fake_time, level, fmt[1])),
                               LOG_ENTRIES)
              /\ written' = written \cup {head}
              /\ queried' = TRUE
              /\ UNCHANGED fault
    /\ last' = Called("log_event")
    /\ UNCHANGED <<timestamp_fn, fake_time, inited>>

\* log_get_count(ctx)
log_get_count(ctx) == IF ctx = NULL THEN 0 ELSE count

\* 2^32 modulo LOG_ENTRIES (2^32 itself is beyond the checker's integers).
Uint32ModEntries ==
    ((UINT16 % LOG_ENTRIES) * (UINT16 % LOG_ENTRIES)) % LOG_ENTRIES

\* Mutants of PhysIdx: the count is left out (the index is taken from the
\* write cursor); the cursor and the count are left out (the index is
\* taken from slot 0).
PhysIdx_NoCount(h, c, idx) == ((h + idx) % LOG_ENTRIES) % UINT16
PhysIdx_FromZero(h, c, idx) == (idx % LOG_ENTRIES) % UINT16

\* Mutant of PhysIdx: the index is one slot too far.
PhysIdx_OffByOne(h, c, idx) ==
    ((h + LOG_ENTRIES - c + idx + 1) % LOG_ENTRIES) % UINT16

\* phys_idx of log_get_entry.  LOG_ENTRIES is 50U, so the sum is formed in
\* 32-bit unsigned int: a sum below zero wraps to sum + 2^32 before the
\* remainder is taken.
PhysIdx(h, c, idx) ==
    LET sum == h + LOG_ENTRIES - c + idx
    IN  IF sum >= 0
          THEN (sum % LOG_ENTRIES) % UINT16
          ELSE (((sum % LOG_ENTRIES) + Uint32ModEntries) % LOG_ENTRIES) % UINT16

\* Mutant of log_get_entry: the bound check is off by one.
log_get_entry_OffByOne(ctx, idx) ==
    IF (ctx = NULL) \/ (idx > count)
      THEN NULL
      ELSE <<PhysIdx(head, count, idx)>>

\* log_get_entry(ctx, idx): NULL, or the pointer to a slot of ctx->buffer.
log_get_entry(ctx, idx) ==
    IF (ctx = NULL) \/ (idx >= count)
      THEN NULL
      ELSE <<PhysIdx(head, count, idx)>>

\* The struct log_entry a non-NULL entry pointer refers to.
Deref(p) == buffer[p[1]]

\* Mutant of log_get_buffer: for a NULL context nothing is stored through
\* the count pointer.
log_get_buffer_NoNullCount(ctx, countp) ==
    IF ctx = NULL
      THEN [ptr |-> NULL, out |-> << >>]
      ELSE [ptr |-> <<0>>, out |-> IF countp # NULL THEN <<count>> ELSE << >>]

\* log_get_buffer(ctx, count): the pointer returned, and what is stored
\* through the count pointer (<< >> when nothing is stored).
log_get_buffer(ctx, countp) ==
    IF ctx = NULL
      THEN [ptr |-> NULL, out |-> IF countp # NULL THEN <<0>> ELSE << >>]
      ELSE [ptr |-> <<0>>, out |-> IF countp # NULL THEN <<count>> ELSE << >>]

\* Index arguments of the explored log_get_entry calls.
Idxs == (0 .. (LOG_ENTRIES + 1)) \cup {UINT16 - 1}
\* The count argument of log_get_buffer: NULL or the address of a uint16_t.
CountPtrs == {NULL, <<"count">>}

\* A call of log_get_count, log_get_entry or log_get_buffer: each takes a
\* const struct log_ctx * and stores nothing in the context.
GetCount(ctx) ==
    /\ ~fault
    /\ log_get_count(ctx) \in 0 .. (UINT16 - 1)
    /\ queried' = FALSE
    /\ last' = Called("log_get_count")
    /\ UNCHANGED <<buffer, head, count, timestamp_fn, fake_time, fault,
                   inited, nappends, fifo, written>>

GetEntry(ctx, idx) ==
    /\ ~fault
    /\ log_get_entry(ctx, idx) \in {NULL} \cup {<<p>> : p \in Slots}
    /\ queried' = FALSE
    /\ last' = Called("log_get_entry")
    /\ UNCHANGED <<buffer, head, count, timestamp_fn, fake_time, fault,
                   inited, nappends, fifo, written>>

GetBuffer(ctx, countp) ==
    /\ ~fault
    /\ log_get_buffer(ctx, countp).ptr \in {NULL, <<0>>}
    /\ queried' = FALSE
    /\ last' = Called("log_get_buffer")
    /\ UNCHANGED <<buffer, head, count, timestamp_fn, fake_time, fault,
                   inited, nappends, fifo, written>>

\* The harness advances the tick value between calls (fake_time += ..).
Tick ==
    /\ ~fault
    /\ fake_time < MaxTime
    /\ fake_time' = fake_time + 1
    /\ queried' = FALSE
    /\ last' = Called("tick")
    /\ UNCHANGED <<buffer, head, count, timestamp_fn, fault, inited,
                   nappends, fifo, written>>

InitStep ==
    /\ \E ctx \in CtxPtrs, fn \in {NULL, fake_timestamp} : log_init(ctx, fn)
    /\ UNCHANGED oncevars
EventStep ==
    /\ \E ctx \in CtxPtrs, call \in Calls : log_event(ctx, call[1], call[2])
    /\ UNCHANGED oncevars
ReadStep ==
    /\ \/ \E ctx \in CtxPtrs : GetCount(ctx)
       \/ \E ctx \in CtxPtrs, idx \in Idxs : GetEntry(ctx, idx)
       \/ \E ctx \in CtxPtrs, countp \in CountPtrs : GetBuffer(ctx, countp)
    /\ UNCHANGED oncevars
TickStep == Tick /\ UNCHANGED oncevars

Next == InitStep \/ EventStep \/ ReadStep \/ TickStep

Spec == Init /\ [][Next]_vars

\* Rendered texts of every length from 0 to beyond the message field; the
\* character at a position tells the position (modulo 10).
Digits == <<"0", "1", "2", "3", "4", "5", "6", "7", "8", "9">>
Text(n) == [i \in 1 .. n |-> Digits[(i % 10) + 1]]
TextLens == 0 .. (LOG_MSG_LEN + MaxTextOver)

\* log_event calls whose rendered text has each of these lengths.
MsgEventStep ==
    /\ nappends < MaxMsgAppends
    /\ \E n \in TextLens : log_event(CTX, INFO, <<Text(n)>>)
    /\ UNCHANGED oncevars

NextMsg == InitStep \/ MsgEventStep

SpecMsg == Init /\ [][NextMsg]_vars
SpecAuto == InitAuto /\ [][Next]_vars

-----------------------------------------------------------------------------
(***************************************************************************)
(* LOG_ONCE (log.h).  Each call site owns a static uint8_t _logged; the    *)
(* macro may be handed any context, so a second one (other) stands beside  *)
(* the first.                                                              *)
(***************************************************************************)

\* The address of the second context.
CTX2 == <<"ctx2">>
OncePtrs == {NULL, CTX, CTX2}

\* The (level, fmt) arguments written at each LOG_ONCE call site; the texts
\* differ from those of the plain log_event calls.
MsgOnce == <<"O", "n", "c", "e">>
MsgState == <<"S", "t", "a", "t", "e">>
SiteCall(site) ==
    IF site = "site_a" THEN <<WARN, <<MsgOnce>>>> ELSE <<INFO, <<MsgState>>>>

\* log_init(&other, fn)
log_init_other(fn) ==
    /\ ~fault
    /\ other' = [buffer |-> ZeroBuffer, head |-> 0, count |-> 0,
                 timestamp_fn |-> fn]
    /\ queried' = FALSE
    /\ last' = [op |-> "log_init", had |-> other.count]
    /\ UNCHANGED <<buffer, head, count, timestamp_fn, fake_time, fault,
                   inited, nappends, fifo, written>>

\* log_event(&other, level, fmt, ...): the same code on the second context,
\* which is always in static storage or initialized.
log_event_other(level, fmt) ==
    /\ ~fault
    /\ IF (other.timestamp_fn = NULL) \/ (fmt = NULL)
         THEN /\ UNCHANGED other
              /\ queried' = FALSE
         ELSE /\ other' = [other EXCEPT
                    !.buffer[other.head] = NewEntry(fake_time, level, fmt[1]),
                    !.head = AdvanceHead(other.head),
                    !.count = AdvanceCount(other.count)]
              /\ queried' = TRUE
    /\ last' = [op |-> "log_event", had |-> other.count]
    /\ UNCHANGED <<buffer, head, count, timestamp_fn, fake_time, fault,
                   inited, nappends, fifo, written>>

\* The count of the context a pointer refers to (0 for NULL).
TargetCount(ctx) ==
    IF ctx = CTX2 THEN other.count ELSE log_get_count(ctx)

\* Mutant of OnceArmed: an empty target log arms the call site again.
OnceArmed_RearmOnEmpty(site, ctx) ==
    (_logged[site] = 0) \/ (ctx # NULL /\ TargetCount(ctx) = 0)

\* if (_logged == 0U)
OnceArmed(site, ctx) == _logged[site] = 0

\* Mutants of OnceSet: the flag is never set; the flag is set only when
\* log_event stored an entry.
OnceSet_Never(site, stored) == _logged[site]
OnceSet_OnSuccess(site, stored) == IF stored THEN 1 ELSE _logged[site]

\* _logged = 1U, whatever log_event did
OnceSet(site, stored) == 1

\* LOG_ONCE(ctx, level, fmt) at a call site
LOG_ONCE(site, ctx) ==
    /\ ~fault
    /\ IF OnceArmed(site, ctx)
         THEN /\ IF ctx = CTX2
                   THEN log_event_other(SiteCall(site)[1], SiteCall(site)[2])
                   ELSE /\ log_event(ctx, SiteCall(site)[1], SiteCall(site)[2])
                        /\ UNCHANGED other
              /\ _logged' = [_logged EXCEPT ![site] = OnceSet(site, queried')]
              /\ fired' = [fired EXCEPT ![site] =
                              Append(@, IF queried' THEN "stored" ELSE "noop")]
         ELSE /\ queried' = FALSE
              /\ last' = [op |-> "LOG_ONCE", had |-> TargetCount(ctx)]
              /\ UNCHANGED <<buffer, head, count, timestamp_fn, fake_time,
                             fault, inited, nappends, fifo, written,
                             _logged, fired, other>>

OtherInitStep ==
    /\ \E fn \in {NULL, fake_timestamp} : log_init_other(fn)
    /\ UNCHANGED <<_logged, fired>>
OnceStep == \E site \in Sites, ctx \in OncePtrs : LOG_ONCE(site, ctx)
OnceEventStep ==
    /\ nappends < MaxOnceAppends
    /\ EventStep

NextOnce ==
    InitStep \/ OtherInitStep \/ OnceStep \/ OnceEventStep \/ TickStep

SpecOnce == Init /\ [][NextOnce]_vars

-----------------------------------------------------------------------------
(***************************************************************************)
(* What the properties below are stated with.                              *)
(***************************************************************************)

\* The entry at logical index i of the one context, for i < count.
EntryAt(i) == Deref(log_get_entry(CTX, i))

\* Entry e records the append a: its tick value, its level, and its text
\* cut to the message field (the field holds LOG_MSG_LEN - 1 characters and
\* the terminator).
Matches(e, a) ==
    /\ e.timestamp = a.ts
    /\ e.level = a.level
    /\ e.msg = SubSeq(a.text, 1, Min(Len(a.text), LOG_MSG_LEN - 1))

\* Append number k (0-indexed) since the last log_init, for the appends
\* fifo still holds: nappends - Len(fifo) <= k < nappends.
AppendNo(k) == fifo[k - (nappends - Len(fifo)) + 1]

\* C1: from a log initialized with a present time source, after N <=
\* LOG_ENTRIES successful appends log_get_count returns N and
\* log_get_entry(i), for every i < N, returns the entry of append number i:
\* its level, its message and the tick value the time source returned
\* during that append.
C1_AppendOrder ==
    (timestamp_fn = fake_timestamp /\ nappends <= LOG_ENTRIES) =>
        /\ log_get_count(CTX) = nappends
        /\ \A i \in 0 .. (nappends - 1) :
              /\ log_get_entry(CTX, i) # NULL
              /\ Matches(EntryAt(i), AppendNo(i))

\* The buffer was filled exactly, by appends made at different tick values.
C1_Witness ==
    /\ timestamp_fn = fake_timestamp
    /\ nappends = LOG_ENTRIES
    /\ last.op = "log_event" /\ queried
    /\ EntryAt(0).timestamp = 0
    /\ EntryAt(LOG_ENTRIES - 1).timestamp = MaxTime
    /\ EntryAt(0).level # EntryAt(1).level

\* C2: after N > LOG_ENTRIES successful appends since log_init,
\* log_get_count returns LOG_ENTRIES, log_get_entry(0) returns the entry of
\* append number N - LOG_ENTRIES and log_get_entry(LOG_ENTRIES - 1) the
\* entry of append number N - 1, with the level and the tick value of those
\* appends.
C2_Wraparound ==
    (timestamp_fn = fake_timestamp /\ nappends > LOG_ENTRIES) =>
        /\ log_get_count(CTX) = LOG_ENTRIES
        /\ log_get_entry(CTX, 0) # NULL
        /\ Matches(EntryAt(0), AppendNo(nappends - LOG_ENTRIES))
        /\ log_get_entry(CTX, LOG_ENTRIES - 1) # NULL
        /\ Matches(EntryAt(LOG_ENTRIES - 1), AppendNo(nappends - 1))

\* The buffer has wrapped twice and one entry more was appended.
C2_Witness ==
    /\ timestamp_fn = fake_timestamp
    /\ nappends = 2 * LOG_ENTRIES + 1
    /\ last.op = "log_event" /\ queried
    /\ EntryAt(0).timestamp # EntryAt(LOG_ENTRIES - 1).timestamp
    /\ EntryAt(0).level # EntryAt(LOG_ENTRIES - 1).level

\* A step that is a successful append: log_event was called and stored an
\* entry (it called the time source).
Stored == last'.op = "log_event" /\ queried'

\* C3: appending never fails due to capacity.  A log_event call with a
\* present context, time source and format on a full log stores its entry;
\* the append keeps count at LOG_ENTRIES, overwrites exactly the slot that
\* held logical index 0, moves every other retained entry down by one
\* logical index and places the new entry at logical index LOG_ENTRIES - 1.
C3_OverwriteOldest ==
    [][ /\ \A call \in Calls :
             ( /\ log_event(CTX, call[1], call[2])
               /\ count = LOG_ENTRIES
               /\ timestamp_fn # NULL
               /\ call[2] # NULL ) => (Stored /\ ~fault')
        /\ (Stored /\ count = LOG_ENTRIES) =>
             /\ count' = LOG_ENTRIES
             /\ \A p \in Slots :
                   (buffer'[p] # buffer[p]) => (log_get_entry(CTX, 0) = <<p>>)
             /\ \A i \in 1 .. (LOG_ENTRIES - 1) :
                   /\ log_get_entry(CTX, i - 1)' = log_get_entry(CTX, i)
                   /\ EntryAt(i - 1)' = EntryAt(i)
             /\ log_get_entry(CTX, LOG_ENTRIES - 1)' = log_get_entry(CTX, 0)
             /\ Matches(EntryAt(LOG_ENTRIES - 1)', fifo'[Len(fifo')])
      ]_vars

\* An append on a full log has just overwritten the oldest entry with one
\* that differs from it.
C3_Witness ==
    /\ last = [op |-> "log_event", had |-> LOG_ENTRIES]
    /\ queried
    /\ count = LOG_ENTRIES
    /\ nappends = LOG_ENTRIES + 2
    /\ EntryAt(LOG_ENTRIES - 1).level = FAULT
    /\ EntryAt(0).level = WARN

\* C4: in every reachable state log_get_entry(idx) is NULL for every
\* idx >= log_get_count(), indices beyond LOG_ENTRIES and any index on an
\* empty log included, and points to a slot of the buffer for every
\* idx < log_get_count().
C4_OutOfRangeAbsent ==
    \A idx \in Idxs :
        /\ (idx >= log_get_count(CTX)) => (log_get_entry(CTX, idx) = NULL)
        /\ (idx < log_get_count(CTX)) =>
              /\ log_get_entry(CTX, idx) # NULL
              /\ log_get_entry(CTX, idx) \in {<<p>> : p \in Slots}
        /\ log_get_entry(NULL, idx) = NULL

\* One entry is held: index 0 is present, index 1 and far indices absent.
C4_Witness ==
    /\ inited
    /\ log_get_count(CTX) = 1
    /\ last.op = "log_get_entry"
    /\ log_get_entry(CTX, 0) = <<0>>
    /\ log_get_entry(CTX, 1) = NULL
    /\ log_get_entry(CTX, LOG_ENTRIES + 1) = NULL
    /\ log_get_entry(CTX, UINT16 - 1) = NULL

\* C5: a log_event call with a NULL context, with a NULL format, or made
\* while the context's time source is NULL changes nothing: count, head,
\* every slot and the time source reference stay as they were and the time
\* source is not called, from every reachable state.
C5_RejectedAppendNoOp ==
    [][ \A ctx \in CtxPtrs, call \in Calls :
          ( /\ log_event(ctx, call[1], call[2])
            /\ (ctx = NULL) \/ (timestamp_fn = NULL) \/ (call[2] = NULL) )
          => /\ UNCHANGED <<buffer, head, count, timestamp_fn>>
             /\ ~queried'
             /\ ~fault'
      ]_vars

\* A rejected log_event call was made on a full, wrapped log.
C5_Witness ==
    /\ last = [op |-> "log_event", had |-> LOG_ENTRIES]
    /\ ~queried
    /\ inited
    /\ timestamp_fn = fake_timestamp
    /\ nappends = LOG_ENTRIES + 1
    /\ count = LOG_ENTRIES
    /\ head = 1

\* A step that is a call of log_init on the context.
Reinit == \E fn \in {NULL, fake_timestamp} : log_init(CTX, fn)

\* C6: log_init from any reachable state (empty, partly filled, full or
\* wrapped) sets log_get_count to 0 and leaves log_get_entry NULL for every
\* index; after k later successful appends the entries log_get_entry
\* returns are those k appends (the last LOG_ENTRIES of them), never an
\* entry appended before the log_init.
C6_ReinitDiscards ==
    /\ [][ Reinit =>
             /\ log_get_count(CTX)' = 0
             /\ \A idx \in Idxs : log_get_entry(CTX, idx)' = NULL
             /\ \A p \in Slots : buffer'[p] = ZeroEntry
         ]_vars
    /\ [](inited =>
             /\ log_get_count(CTX) = Min(nappends, LOG_ENTRIES)
             /\ \A i \in 0 .. (count - 1) :
                   Matches(EntryAt(i), AppendNo(nappends - count + i)))

\* log_init has just been called on a full log.
C6_Witness ==
    /\ last = [op |-> "log_init", had |-> LOG_ENTRIES]
    /\ inited
    /\ count = 0
    /\ nappends = 0
    /\ fake_time = MaxTime

\* C7: the ring refines a bounded FIFO.  fifo is emptied by log_init,
\* extended by each successful append and cut to its last LOG_ENTRIES
\* elements; after any interleaving of log_init (with or without a time
\* source), successful and rejected appends, log_get_count equals its
\* length and log_get_entry(i) is its element i for every i below the
\* count (index 0 the oldest, the last the most recent append).
C7_RefinesFifo ==
    /\ log_get_count(CTX) = Len(fifo)
    /\ \A i \in 0 .. (Len(fifo) - 1) :
          /\ log_get_entry(CTX, i) # NULL
          /\ Matches(EntryAt(i), fifo[i + 1])

\* The buffer has wrapped, the write cursor is inside the array, and the
\* oldest and the newest retained entry differ.
C7_Witness ==
    /\ inited
    /\ nappends = LOG_ENTRIES + 2
    /\ Len(fifo) = LOG_ENTRIES
    /\ head = 2
    /\ fifo[1] # fifo[LOG_ENTRIES]
    /\ last.op = "log_event" /\ ~queried

\* C8: in every state reached after log_init by log_init and log_event
\* calls, 0 <= head < LOG_ENTRIES and 0 <= count <= LOG_ENTRIES.
C8_CursorAndCountInRange ==
    inited => /\ head \in 0 .. (LOG_ENTRIES - 1)
              /\ count \in 0 .. LOG_ENTRIES
              /\ ~fault

\* The cursor is at the last slot of a full buffer, one append before its
\* second wrap.
C8_Witness ==
    /\ inited
    /\ nappends = 2 * LOG_ENTRIES - 1
    /\ head = LOG_ENTRIES - 1
    /\ count = LOG_ENTRIES

\* C9: count does not decrease across a log_event call (storing or
\* rejected) or a read; the only step that leaves count smaller than it
\* was, and the only one that takes it from non-zero to 0, is a log_init
\* call on the context.
C9_CountMonotone ==
    [][ /\ (last'.op \in {"log_event", "log_get_count", "log_get_entry",
                          "log_get_buffer"}) => (count' >= count)
        /\ (count' < count) => Reinit
        /\ (count # 0 /\ count' = 0) => Reinit
      ]_vars

\* log_init has just taken the count of a partly filled log back to 0.
C9_Witness ==
    /\ last = [op |-> "log_init", had |-> 1]
    /\ count = 0
    /\ inited

\* A context whose storage is all zero: static storage before log_init.
ZeroFilled ==
    /\ buffer = ZeroBuffer
    /\ head = 0
    /\ count = 0
    /\ timestamp_fn = NULL

\* C10 as stated: a log never passed to log_init behaves as an empty log:
\* log_get_count returns 0, log_get_buffer reports count 0, and log_event
\* changes nothing and does not call a time source.
C10_Original ==
    /\ [](~inited =>
             /\ log_get_count(CTX) = 0
             /\ log_get_buffer(CTX, <<"count">>).out = <<0>>)
    /\ [][ (~inited /\ last'.op = "log_event") =>
             /\ UNCHANGED <<buffer, head, count, timestamp_fn>>
             /\ ~queried'
             /\ ~fault'
         ]_vars

\* C10, amended: a log never passed to log_init whose storage is
\* zero-initialized behaves as an empty log: log_get_count returns 0,
\* log_get_buffer reports count 0, and log_event changes nothing and does
\* not call a time source; so does the absent (NULL) log.
C10_ZeroStorageEmpty ==
    /\ []((~inited /\ ZeroFilled) =>
             /\ log_get_count(CTX) = 0
             /\ log_get_buffer(CTX, <<"count">>).out = <<0>>)
    /\ [](/\ log_get_count(NULL) = 0
          /\ log_get_buffer(NULL, <<"count">>).out = <<0>>)
    /\ [][ (~inited /\ ZeroFilled /\ last'.op = "log_event") =>
             /\ UNCHANGED <<buffer, head, count, timestamp_fn>>
             /\ ~queried'
             /\ ~fault'
         ]_vars

\* log_event has been called on a zero-filled log never passed to log_init.
C10_Witness ==
    /\ ~inited
    /\ ZeroFilled
    /\ last.op = "log_event"
    /\ ~queried
    /\ ~fault

\* C11: log_get_buffer never fails.  For a NULL context it returns NULL and
\* stores 0 through the count pointer; for the context it returns the
\* context's own buffer array and stores log_get_count(); a NULL count
\* pointer is tolerated (nothing is stored); the call changes no field of
\* the context.
C11_GetBufferTotal ==
    /\ [](/\ log_get_buffer(NULL, <<"count">>) = [ptr |-> NULL, out |-> <<0>>]
          /\ log_get_buffer(NULL, NULL) = [ptr |-> NULL, out |-> << >>]
          /\ log_get_buffer(CTX, <<"count">>) =
                [ptr |-> <<0>>, out |-> <<log_get_count(CTX)>>]
          /\ log_get_buffer(CTX, NULL) = [ptr |-> <<0>>, out |-> << >>]
          /\ Deref(log_get_buffer(CTX, NULL).ptr) = buffer[0])
    /\ [][ (\E ctx \in CtxPtrs, countp \in CountPtrs : GetBuffer(ctx, countp))
             => UNCHANGED <<buffer, head, count, timestamp_fn>> ]_vars

\* log_get_buffer has been called on a log holding two entries, as in
\* test_log_get_buffer_returns_correct_count_and_pointer.
C11_Witness ==
    /\ last = [op |-> "log_get_buffer", had |-> 2]
    /\ inited
    /\ log_get_buffer(CTX, <<"count">>).out = <<2>>
    /\ buffer[0].msg = MsgBoot
    /\ buffer[1].msg = MsgRetry

\* Raw slot i of the array log_get_buffer returns.
RawSlot(i) == <<log_get_buffer(CTX, NULL).ptr[1] + i>>

\* Every logical index below the count names the raw slot of that index.
RawInAgeOrder ==
    \A i \in 0 .. (count - 1) : log_get_entry(CTX, i) = RawSlot(i)

\* C12: the array log_get_buffer returns is in physical order.  With n
\* successful appends since the last log_init, raw slot i is the slot
\* log_get_entry(i) refers to for every i below the count if and only if
\* n <= LOG_ENTRIES or n is a multiple of LOG_ENTRIES; otherwise raw slot 0
\* is not the oldest entry, which is at raw slot head.
C12_RawPhysicalOrder ==
    /\ RawInAgeOrder <=>
          ((nappends <= LOG_ENTRIES) \/ (nappends % LOG_ENTRIES = 0))
    /\ ~RawInAgeOrder =>
          /\ head # 0
          /\ log_get_entry(CTX, 0) # RawSlot(0)
          /\ log_get_entry(CTX, 0) = RawSlot(head)

\* The buffer has wrapped by one entry: raw slot 0 holds the newest entry
\* and raw slot 1 the oldest.
C12_Witness ==
    /\ inited
    /\ nappends = LOG_ENTRIES + 1
    /\ head = 1
    /\ log_get_entry(CTX, 0) = RawSlot(1)
    /\ Matches(Deref(RawSlot(0)), AppendNo(nappends - 1))
    /\ Deref(RawSlot(0)) # Deref(RawSlot(1))

\* The state log_init(&ctx, fn) is to produce.
InitState(fn) ==
    /\ head = 0
    /\ count = 0
    /\ buffer = ZeroBuffer
    /\ timestamp_fn = fn

\* C15: log_init is idempotent and leaks nothing.  From any state, also one
\* of indeterminate fields, log_init(&ctx, fn) gives head 0, count 0, every
\* slot zeroed and timestamp_fn = fn (NULL included); called again with the
\* same fn it changes no field.
C15_InitIdempotent ==
    [][ \A fn \in {NULL, fake_timestamp} :
          log_init(CTX, fn) =>
             /\ InitState(fn)'
             /\ InitState(fn) => UNCHANGED <<buffer, head, count, timestamp_fn>>
      ]_vars

\* log_init with a NULL time source has just reset a log that held two
\* entries.
C15_Witness ==
    /\ last = [op |-> "log_init", had |-> 2]
    /\ inited
    /\ InitState(NULL)
    /\ written = {}

\* C16: for every index i below the count, log_get_entry returns the slot
\* (head + LOG_ENTRIES - count + i) mod LOG_ENTRIES; the sum is neither
\* negative nor beyond the uint16_t range, the slot lies in the buffer and
\* was written by log_event since the last log_init (it is not a cleared
\* slot), before and after the buffer has wrapped.
C16_PhysIdxFormula ==
    \A i \in 0 .. (count - 1) :
        LET sum == head + LOG_ENTRIES - count + i
        IN  /\ sum >= 0
            /\ sum < UINT16
            /\ log_get_entry(CTX, i) = <<sum % LOG_ENTRIES>>
            /\ (sum % LOG_ENTRIES) \in Slots
            /\ (sum % LOG_ENTRIES) \in written
            /\ buffer[sum % LOG_ENTRIES] # ZeroEntry

\* The buffer has wrapped by two entries; the newest entry is in slot 1.
C16_Witness ==
    /\ inited
    /\ nappends = LOG_ENTRIES + 2
    /\ head = 2
    /\ count = LOG_ENTRIES
    /\ log_get_entry(CTX, 0) = <<2>>
    /\ log_get_entry(CTX, LOG_ENTRIES - 1) = <<1>>

\* C17: a successful append calls the time source, writes the new entry
\* into the slot at the old head, sets head to (head + 1) mod LOG_ENTRIES
\* and increments count only if it was below LOG_ENTRIES; every other slot,
\* the time source reference and the tick value stay as they were.
C17_AppendFrame ==
    [][ Stored =>
          /\ queried'
          /\ buffer'[head] =
                Entry(fake_time, fifo'[Len(fifo')].level,
                      SubSeq(fifo'[Len(fifo')].text, 1,
                             Min(Len(fifo'[Len(fifo')].text), LOG_MSG_LEN - 1)))
          /\ \A p \in Slots : (p # head) => (buffer'[p] = buffer[p])
          /\ head' = (head + 1) % LOG_ENTRIES
          /\ count' = IF count < LOG_ENTRIES THEN count + 1 ELSE count
          /\ UNCHANGED <<timestamp_fn, fake_time, fault>>
      ]_vars

\* A second entry has just been appended to a log that held one.
C17_Witness ==
    /\ last = [op |-> "log_event", had |-> 1]
    /\ queried
    /\ head = 2
    /\ count = 2
    /\ buffer[1].timestamp = 1
    /\ buffer[1].level = FAULT
    /\ buffer[0].level = INFO

\* C19: after log_init, a count below LOG_ENTRIES equals head: the valid
\* entries are in slots 0 .. count-1 and every slot from head upward is
\* still cleared; a count of LOG_ENTRIES means the oldest entry is in the
\* slot at head, the next one to be overwritten.
C19_HeadCountRelation ==
    inited =>
       /\ (count < LOG_ENTRIES) =>
             /\ head = count
             /\ written = 0 .. (count - 1)
             /\ \A i \in 0 .. (count - 1) : log_get_entry(CTX, i) = <<i>>
             /\ \A p \in Slots : (p >= head) => (buffer[p] = ZeroEntry)
       /\ (count = LOG_ENTRIES) =>
             /\ written = Slots
             /\ log_get_entry(CTX, 0) = <<head>>

\* A log filled again after a log_init that discarded a full buffer: one
\* slot is still cleared.
C19_Witness ==
    /\ inited
    /\ fake_time = MaxTime
    /\ count = LOG_ENTRIES - 1
    /\ head = LOG_ENTRIES - 1
    /\ buffer[LOG_ENTRIES - 1] = ZeroEntry
    /\ buffer[0].timestamp = MaxTime

\* C14: for a rendered text of length L a successful append stores exactly
\* its first min(L, LOG_MSG_LEN - 1) characters followed by the terminator:
\* the stored message is a prefix of the text, and with its terminator it
\* fits the LOG_MSG_LEN characters of the message field.
C14_MessageTruncation ==
    \A i \in 0 .. (Len(fifo) - 1) :
        LET a == fifo[i + 1]
            e == EntryAt(i)
        IN  /\ Len(e.msg) = Min(Len(a.text), LOG_MSG_LEN - 1)
            /\ \A k \in 1 .. Len(e.msg) : e.msg[k] = a.text[k]
            /\ Len(e.msg) + 1 <= LOG_MSG_LEN

\* A text one character longer than the field and a text that exactly fits
\* have been appended.
C14_Witness ==
    /\ nappends = 2
    /\ Len(fifo[1].text) = LOG_MSG_LEN + 1
    /\ Len(EntryAt(0).msg) = LOG_MSG_LEN - 1
    /\ Len(fifo[2].text) = LOG_MSG_LEN - 1
    /\ EntryAt(1).msg = fifo[2].text

-----------------------------------------------------------------------------
(***************************************************************************)
(* LOG_ONCE properties, checked under SpecOnce.                            *)
(***************************************************************************)

\* The fields of both contexts.
LogFields == <<buffer, head, count, timestamp_fn, other>>

\* The slots, of either context, that hold the message of a call site.
Holders(site) ==
    {<<"ctx", p>> : p \in {q \in Slots :
                              buffer[q].msg = SiteCall(site)[2][1]}}
    \cup {<<"ctx2", p>> : p \in {q \in Slots :
                              other.buffer[q].msg = SiteCall(site)[2][1]}}

\* C13: over any number of executions of one LOG_ONCE call site the gated
\* log_event is invoked at most once; an execution of the site raises the
\* count of a log by at most one, and every execution after the first leaves
\* both logs and the record of the site's calls unchanged.
C13_LogOnceAtMostOnce ==
    /\ [](\A site \in Sites : Len(fired[site]) <= 1)
    /\ [][\A site \in Sites, ctx \in OncePtrs :
            LOG_ONCE(site, ctx) =>
                /\ count' <= count + 1
                /\ other'.count <= other.count + 1
                /\ (count' - count) + (other'.count - other.count)
                       <= 1 - Len(fired[site])
                /\ Len(fired[site]) >= 1 =>
                       /\ UNCHANGED LogFields
                       /\ fired' = fired]_vars

\* A site has stored its message in the log and has been executed again:
\* the log still holds that one entry.
C13_Witness ==
    /\ fired["site_a"] = <<"stored">>
    /\ last = [op |-> "LOG_ONCE", had |-> 1]
    /\ count = 1
    /\ EntryAt(0).msg = MsgOnce
    /\ other.count = 0

\* C18: once a LOG_ONCE call site has fired, no step (a log_init of either
\* context included) clears its flag; executing it again with the same, the
\* other or no context changes neither log; and the set of slots holding its
\* message never grows, so a re-initialized or other log never receives it.
C18_SuppressionIndependentOfLog ==
    /\ [][\A site \in Sites :
            _logged[site] = 1 => _logged'[site] = 1]_vars
    /\ [][\A site \in Sites, ctx \in OncePtrs :
            (LOG_ONCE(site, ctx) /\ fired[site] # << >>) =>
                UNCHANGED LogFields]_vars
    /\ [][\A site \in Sites :
            fired[site] # << >> => Holders(site)' \subseteq Holders(site)]_vars

\* The site stored its message, the log was re-initialized and written to
\* again, and the site was then executed on that log: its message is in
\* neither log.
C18_Witness ==
    /\ fired["site_a"] = <<"stored">>
    /\ Holders("site_a") = {}
    /\ timestamp_fn = fake_timestamp
    /\ last = [op |-> "LOG_ONCE", had |-> 1]
    /\ count = 1
    /\ other.count = 0

\* C20: every execution of a LOG_ONCE call site ends with its flag set,
\* also when the gated log_event stored nothing (NULL context, NULL
\* timestamp_fn); a site whose single call was such a no-op never has its
\* message in a log, whatever is executed later.
C20_NoOpConsumesShot ==
    /\ [][\A site \in Sites, ctx \in OncePtrs :
            LOG_ONCE(site, ctx) => _logged'[site] = 1]_vars
    /\ [](\A site \in Sites :
            fired[site] # << >> =>
                /\ _logged[site] = 1
                /\ (fired[site] = <<"noop">> => Holders(site) = {}))

\* The site's only call was a no-op; it was then executed on an initialized
\* log that already holds an entry, and stored nothing.
C20_Witness ==
    /\ fired["site_a"] = <<"noop">>
    /\ inited
    /\ timestamp_fn = fake_timestamp
    /\ last = [op |-> "LOG_ONCE", had |-> 1]
    /\ count = 1
    /\ other.count = 0
    /\ Holders("site_a") = {}

=============================================================================
